---- MODULE Spec2Model ----
(***************************************************************************)
(* Model of the game-metadata aggregation pipeline: add_game (index.py)    *)
(* and the batched historical-low loader of the pricing client             *)
(* (ITADHandler.py).                                                       *)
(*                                                                         *)
(* Python dictionaries with optional keys are functions whose DOMAIN is    *)
(* the set of keys present; `k in d` is k \in DOMAIN d and d[k] on a       *)
(* missing key is a KeyError.  Lists are sequences (1-based here, 0-based  *)
(* in the source; indices are kept 0-based and shifted when slicing).      *)
(***************************************************************************)
EXTENDS Integers, Sequences, FiniteSets, TLC

\* ------------------------------------------------------------------ bounds
MaxCalls == 2
MaxGenres == 2
MaxCompanies == 3
MaxSamples == 2
MaxPlains == 6

\* ------------------------------------------------------- program constants
BatchSize == 5
Unknown == -1
AllowedCategories == {0, 6, 8, 9, 10, 11}

\* ----------------------------------------------------------------- helpers
Min(a, b) == IF a < b THEN a ELSE b

Range(s) == {s[j] : j \in 1..Len(s)}

NoDup(s) == \A a, b \in 1..Len(s) : a # b => s[a] # s[b]

SeqsUpTo(S, n) == UNION {[1..m -> S] : m \in 0..n}

\* Python slice s[lo:hi] on 0-based indices, clamped to the list like Python.
Slice(s, lo, hi) == SubSeq(s, lo + 1, Min(hi, Len(s)))

\* dict.update: keys of `new` overwrite, other keys are kept.
DictUpdate(old, new) ==
    [k \in DOMAIN old \cup DOMAIN new |-> IF k \in DOMAIN new THEN new[k] ELSE old[k]]

\* dict.get(k, default)
DictGet(d, k, default) == IF k \in DOMAIN d THEN d[k] ELSE default

EmptyDict == <<>>

\* ------------------------------------------------- catalog (IGDB) entries
GenreNames == {"RPG", "FPS"}

OptionalKeys == {"genres", "involved_companies", "platforms", "collection", "similar_games"}

GenreLists ==
    {[j \in 1..Len(s) |-> [name |-> s[j]]] : s \in {t \in SeqsUpTo(GenreNames, MaxGenres) : NoDup(t)}}

CompanyFlags == [developer : BOOLEAN, publisher : BOOLEAN]

CompanyLists ==
    {[j \in 1..Len(f) |-> [company |-> [name |-> "Studio" \o ToString(j)],
                           developer |-> f[j].developer,
                           publisher |-> f[j].publisher]] : f \in SeqsUpTo(CompanyFlags, MaxCompanies)}

PlatformPC == [name |-> "PC", platform_logo |-> [url |-> "pc.png"]]
PlatformNoLogo == [name |-> "Switch"]
PlatformLists == {<<>>, <<PlatformPC>>, <<PlatformPC, PlatformNoLogo>>}

CollectionGames ==
    << [name |-> "Saga I", category |-> 0],
       [name |-> "Saga I DLC", category |-> 1],
       [name |-> "Saga I Remake", category |-> 8] >>
Collections ==
    { [name |-> "Saga"],
      [name |-> "Saga", games |-> <<>>],
      [name |-> "Saga", games |-> CollectionGames] }

SimilarLists == {<<>>, << [name |-> "Other Saga"] >>}

FullCompanies ==
    << [company |-> [name |-> "Studio1"], developer |-> TRUE, publisher |-> FALSE],
       [company |-> [name |-> "Studio2"], developer |-> FALSE, publisher |-> TRUE] >>

\* A catalog entry carrying `name` and the optional keys in S.
Entry(name, S, g, c, p, col, sim) ==
    [k \in S \cup {"name"} |->
        CASE k = "name" -> name
          [] k = "genres" -> g
          [] k = "involved_companies" -> c
          [] k = "platforms" -> p
          [] k = "collection" -> col
          [] k = "similar_games" -> sim]

FullEntry(name, g) ==
    Entry(name, OptionalKeys, g, FullCompanies, <<PlatformPC>>,
          [name |-> "Saga", games |-> CollectionGames], << [name |-> "Other Saga"] >>)

\* Entries with every subset of the optional fields present, and every nested
\* variant of the fields that are present.
PresenceEntries ==
    {Entry("Game", S, g, FullCompanies, p, col, sim) :
        S \in SUBSET OptionalKeys, g \in GenreLists, p \in PlatformLists,
        col \in Collections, sim \in SimilarLists}

\* Entries with every list of involved companies up to MaxCompanies.
CompanyEntries ==
    {Entry("Game", OptionalKeys, << [name |-> "RPG"] >>, c, <<PlatformPC>>,
           [name |-> "Saga", games |-> CollectionGames], <<>>) : c \in CompanyLists}

WideEntries == PresenceEntries \cup CompanyEntries

Keywords == {"k0", "k1", "k2"}

\* ----------------------------------------- add_game: extraction (pure part)
\* index.py 39-41
ExtractGenres(e) ==
    IF "genres" \in DOMAIN e
    THEN [j \in 1..Len(e["genres"]) |-> e["genres"][j]["name"]]
    ELSE <<>>

RECURSIVE TallyGenres(_, _)
\* index.py 44-45
TallyGenres(d, genres) ==
    IF genres = <<>> THEN d
    ELSE TallyGenres(DictUpdate(d, [k \in {Head(genres)} |-> DictGet(d, Head(genres), 0) + 1]),
                     Tail(genres))

IsDeveloper(x) == x["developer"] = TRUE
IsPublisher(x) == x["publisher"] = TRUE

CompanyNames(cs) == [j \in 1..Len(cs) |-> cs[j]["company"]["name"]]

FirstThree(temp) == Slice(temp, 0, Min(3, Len(temp)))

\* index.py 53 and 57: temp[:min(2, len(temp))]
FirstTwo(temp) == Slice(temp, 0, Min(2, Len(temp)))

\* index.py 48-53
ExtractDevs(e) ==
    IF "involved_companies" \in DOMAIN e
    THEN LET temp == CompanyNames(SelectSeq(e["involved_companies"], IsDeveloper))
         IN IF Len(temp) > 0 THEN FirstTwo(temp) ELSE <<>>
    ELSE <<>>

\* index.py 49-57
ExtractPublishers(e) ==
    IF "involved_companies" \in DOMAIN e
    THEN LET temp == CompanyNames(SelectSeq(e["involved_companies"], IsPublisher))
         IN IF Len(temp) > 0 THEN FirstTwo(temp) ELSE <<>>
    ELSE <<>>

\* index.py 61: the guard of the platform comprehension
HasPlatforms(e) == "platforms" \in DOMAIN e /\ Len(e["platforms"]) > 0

\* index.py 63: x['platform_logo']['url'] on a platform without the key
PlatformsRaise(e) ==
    HasPlatforms(e) /\ \E j \in 1..Len(e["platforms"]) : "platform_logo" \notin DOMAIN e["platforms"][j]

\* index.py 60-63
ExtractPlatforms(e) ==
    IF HasPlatforms(e)
    THEN [j \in 1..Len(e["platforms"]) |->
            [name |-> e["platforms"][j]["name"], logo |-> e["platforms"][j]["platform_logo"]["url"]]]
    ELSE <<>>

\* index.py 67: IGDB_res['collection']['games'] on a collection without the key
SeriesRaises(e) == "collection" \in DOMAIN e /\ "games" \notin DOMAIN e["collection"]

InAllowed(x) == x["category"] \in AllowedCategories

\* index.py 66-69
ExtractSeries(e) ==
    IF "collection" \in DOMAIN e /\ Len(e["collection"]["games"]) > 0
    THEN [name |-> e["collection"]["name"],
          games |-> LET sel == SelectSeq(e["collection"]["games"], InAllowed)
                    IN [j \in 1..Len(sel) |-> sel[j]["name"]]]
    ELSE [name |-> "N/A", games |-> <<>>]

\* index.py 72-74
ExtractRelated(e) ==
    IF "similar_games" \in DOMAIN e /\ Len(e["similar_games"]) > 0
    THEN [j \in 1..Len(e["similar_games"]) |-> e["similar_games"][j]["name"]]
    ELSE <<>>

\* The first KeyError of lines 37-74, in program order.
ExtractionRaises(e) == PlatformsRaise(e) \/ SeriesRaises(e)

\* ------------------------------------------------ providers (environment)
\* ITAD storelow samples: the list stored under one plain in the 'data' object.
PriceValues == {5, 8}
SampleSeqs == {[j \in 1..Len(s) |-> [price |-> s[j]]] : s \in SeqsUpTo(PriceValues, MaxSamples)}

\* The plain ITAD.search resolves a title to.
PlainOf(name) == "plain"

\* The identifier lists handed to load_historical_low directly.
PlainLists == {[j \in 1..n |-> "p" \o ToString(j)] : n \in 0..MaxPlains}

\* OpenCritic: a result set that passes check_validity or not, and the score
\* (in tenths) of the top result's review.
Reviews == {[valid |-> FALSE, score10 |-> 0], [valid |-> TRUE, score10 |-> 856]}

\* HowLongToBeat: the search raises, or returns a list of entries.
HltbResults ==
    { [raises |-> TRUE,  entries |-> <<>>],
      [raises |-> FALSE, entries |-> <<>>],
      [raises |-> FALSE, entries |-> << [gameplayMain |-> 12] >>] }

\* int(x) of a non-negative score given in tenths
IntOfTenths(s10) == s10 \div 10

\* index.py 89-93
OCScore(r) == IF r.valid THEN IntOfTenths(r.score10) ELSE Unknown

TimeToBeatZero(h) ==
    IF h.raises \/ Len(h.entries) = 0 THEN 0 ELSE h.entries[1].gameplayMain

\* index.py 96-102: any exception (the search raising, TTB[0] on an empty
\* list) is caught and maps to -1
TimeToBeat(h) ==
    IF h.raises \/ Len(h.entries) = 0 THEN Unknown ELSE h.entries[1].gameplayMain

\* prices['stores']: a list, or the typing object List[str] of line 80
StoresTypeObject == [kind |-> "typing.List[str]", items |-> <<>>]
StoresList(items) == [kind |-> "list", items |-> items]

PricesInitZero == [price |-> 0, lowest |-> Unknown, stores |-> StoresTypeObject]

\* index.py 80
PricesInit == [price |-> Unknown, lowest |-> Unknown, stores |-> StoresTypeObject]

\* index.py 84-85
PricesNoPlain == [PricesInit EXCEPT !.stores = StoresList(<<>>)]

\* index.py 83: lowest[plain][0]['price']
LowestOf(samples) == samples[1]["price"]

\* index.py 105-106: the GameObj constructor keeps its arguments
GameObj(name, genres, devs, publishers, series, related, prices, platforms, ttb, url, art, oc) ==
    [name |-> name, genres |-> genres, developers |-> devs, publishers |-> publishers,
     series |-> series, related |-> related, prices |-> prices, platforms |-> platforms,
     completion_hours |-> ttb, image_url |-> url, artwork_url |-> art, review_score |-> oc]

\* ---------------------------------------------------- load_historical_low
LoopBatchToEnd(gs, i) == Slice(gs, i, Len(gs))

\* ITADHandler.py 120: games[i:i + 5]
LoopBatch(gs, i) == Slice(gs, i, i + BatchSize)

\* ITADHandler.py 125: games[i:len(games)]
TailBatch(gs, i) == Slice(gs, i, Len(gs))

\* ITADHandler.py 123: i < len(games)
TailGuard(gs, i) == i < Len(gs)

\* the 'data' object of a response: every requested plain mapped to its samples
ResponseData(batch, s) == [p \in Range(batch) |-> s]

\* ------------------------------------------------------------------- state
VARIABLES
    catalog,      \* IGDB: keyword -> list of matches (fixed environment)
    games,        \* index.py 24
    genres_dict,  \* index.py 25
    budget,       \* calls left (bounds the behaviours)
    pc,           \* position of the running call, "idle" between calls
    frame,        \* locals of add_game
    lh,           \* locals of load_historical_low
    trace,        \* sleeps and requests of the current load_historical_low call
    call          \* the running or last call: its inputs and how it ended

vars == <<catalog, games, genres_dict, budget, pc, frame, lh, trace, call>>

NoFrame ==
    [full_name |-> "", genres |-> <<>>, devs |-> <<>>, publishers |-> <<>>, platforms |-> <<>>,
     series |-> [name |-> "N/A", games |-> <<>>], related |-> <<>>, plain |-> "",
     prices |-> PricesInit]

NoLh == [caller |-> "", games |-> <<>>, i |-> -1, nxt |-> 0, temp |-> EmptyDict]

NoCall ==
    [op |-> "", status |-> "", exc |-> "", keyword |-> "", plain |-> "", gets |-> <<>>,
     samples |-> <<>>, asked |-> FALSE, review |-> [valid |-> FALSE, score10 |-> 0],
     hltb |-> [raises |-> FALSE, entries |-> <<>>], n0 |-> 0, arg |-> <<>>, result |-> EmptyDict]

\* index.py 37-74: the locals after extraction
Extracted(e) ==
    [NoFrame EXCEPT !.full_name = e["name"], !.genres = ExtractGenres(e),
                    !.devs = ExtractDevs(e), !.publishers = ExtractPublishers(e),
                    !.platforms = ExtractPlatforms(e), !.series = ExtractSeries(e),
                    !.related = ExtractRelated(e)]

\* ITADHandler.py 114-117: entry of load_historical_low
LhEnter(caller, gs) == [caller |-> caller, games |-> gs, i |-> -1, nxt |-> 0, temp |-> EmptyDict]

SmallCatalogs ==
    {[k \in Keywords |->
        CASE k = "k0" -> <<>>
          [] k = "k1" -> << FullEntry("Game One", g1) >>
          [] k = "k2" -> << FullEntry("Game Two", g2), FullEntry("Game One", g1) >>] :
     g1 \in GenreLists, g2 \in {<< [name |-> "FPS"], [name |-> "RPG"] >>}}

WideCatalogs ==
    {[k \in Keywords |-> IF k = "k1" THEN << e >> ELSE <<>>] : e \in WideEntries}

InitCommon ==
    /\ games = <<>>
    /\ genres_dict = EmptyDict
    /\ pc = "idle"
    /\ frame = NoFrame
    /\ lh = NoLh
    /\ trace = <<>>
    /\ call = NoCall

Init ==
    /\ InitCommon
    /\ catalog \in SmallCatalogs
    /\ budget = MaxCalls

\* one call, over the wide set of catalog entries
InitWide ==
    /\ InitCommon
    /\ catalog \in WideCatalogs
    /\ budget = 1

CanCall == pc = "idle" /\ budget > 0

NewCall(op, k) == [NoCall EXCEPT !.op = op, !.status = "running", !.keyword = k, !.n0 = Len(games)]

\* --------------------------------------------------------------- add_game
AddGameNoMatchAppends(k) ==
    /\ CanCall
    /\ Len(catalog[k]) = 0
    /\ games' = Append(games,
            GameObj(k, <<>>, <<>>, <<>>, NoFrame.series, <<>>, PricesNoPlain, <<>>, Unknown,
                    "url", "art", Unknown))
    /\ call' = [NewCall("add_game", k) EXCEPT !.status = "returned"]
    /\ budget' = budget - 1
    /\ trace' = <<>>
    /\ UNCHANGED <<catalog, genres_dict, pc, frame, lh>>

\* index.py 31-34: no catalog match
AddGameNoMatch(k) ==
    /\ CanCall
    /\ Len(catalog[k]) = 0
    /\ call' = [NewCall("add_game", k) EXCEPT !.status = "returned"]
    /\ budget' = budget - 1
    /\ trace' = <<>>
    /\ UNCHANGED <<catalog, games, genres_dict, pc, frame, lh>>

\* index.py 35-67: the genres are tallied (44-45), then a nested key is missing
AddGameExtractRaises(k) ==
    /\ CanCall
    /\ Len(catalog[k]) # 0
    /\ LET e == catalog[k][1] IN
        /\ ExtractionRaises(e)
        /\ genres_dict' = TallyGenres(genres_dict, ExtractGenres(e))
        /\ call' = [NewCall("add_game", k) EXCEPT !.status = "raised", !.exc = "KeyError"]
    /\ budget' = budget - 1
    /\ trace' = <<>>
    /\ UNCHANGED <<catalog, games, pc, frame, lh>>

\* index.py 35-85: extraction, then ITAD.search returns None
AddGamePlainNone(k) ==
    /\ CanCall
    /\ Len(catalog[k]) # 0
    /\ LET e == catalog[k][1] IN
        /\ ~ExtractionRaises(e)
        /\ genres_dict' = TallyGenres(genres_dict, ExtractGenres(e))
        /\ frame' = [Extracted(e) EXCEPT !.prices = PricesNoPlain]
        /\ call' = NewCall("add_game", k)
    /\ pc' = "review"
    /\ budget' = budget - 1
    /\ trace' = <<>>
    /\ UNCHANGED <<catalog, games, lh>>

\* index.py 35-82: extraction, ITAD.search returns a plain, load_historical_low([plain]) is entered
AddGamePlainFound(k) ==
    /\ CanCall
    /\ Len(catalog[k]) # 0
    /\ LET e == catalog[k][1] IN
        /\ ~ExtractionRaises(e)
        /\ genres_dict' = TallyGenres(genres_dict, ExtractGenres(e))
        /\ frame' = [Extracted(e) EXCEPT !.prices = PricesInit, !.plain = PlainOf(e["name"])]
        /\ call' = [NewCall("add_game", k) EXCEPT !.plain = PlainOf(e["name"])]
        /\ lh' = LhEnter("add_game", << PlainOf(e["name"]) >>)
    /\ pc' = "lh_for"
    /\ budget' = budget - 1
    /\ trace' = <<>>
    /\ UNCHANGED <<catalog, games>>

\* ITADHandler.py 186: load_historical_low called on a list of plains
LoadCall(gs) ==
    /\ CanCall
    /\ call' = [NewCall("load", "") EXCEPT !.arg = gs]
    /\ lh' = LhEnter("main", gs)
    /\ pc' = "lh_for"
    /\ budget' = budget - 1
    /\ trace' = <<>>
    /\ UNCHANGED <<catalog, games, genres_dict, frame>>

\* ITADHandler.py 117: the for statement takes the next value of range(0, len(games), 5)
LhFor ==
    /\ pc = "lh_for"
    /\ IF lh.nxt < Len(lh.games)
       THEN /\ lh' = [lh EXCEPT !.i = lh.nxt, !.nxt = lh.nxt + BatchSize]
            /\ pc' = "lh_sleep"
       ELSE /\ lh' = lh
            /\ pc' = "lh_if"
    /\ UNCHANGED <<catalog, games, genres_dict, budget, frame, trace, call>>

\* ITADHandler.py 119 and 124: time.sleep(0.125)
LhSleep ==
    /\ pc \in {"lh_sleep", "lh_sleep2"}
    /\ trace' = Append(trace, [ev |-> "sleep", batch |-> <<>>])
    /\ pc' = IF pc = "lh_sleep" THEN "lh_get" ELSE "lh_get2"
    /\ UNCHANGED <<catalog, games, genres_dict, budget, frame, lh, call>>

CurrentBatch == IF pc = "lh_get" THEN LoopBatch(lh.games, lh.i) ELSE TailBatch(lh.games, lh.i)

\* ITADHandler.py 120-121 and 125-126: the round-trip answers
LhGet(s) ==
    /\ pc \in {"lh_get", "lh_get2"}
    /\ trace' = Append(trace, [ev |-> "get", batch |-> CurrentBatch])
    /\ lh' = [lh EXCEPT !.temp = DictUpdate(lh.temp, ResponseData(CurrentBatch, s))]
    /\ call' = [call EXCEPT !.gets = Append(call.gets, "ok")]
    /\ pc' = IF pc = "lh_get" THEN "lh_for" ELSE "lh_ret"
    /\ UNCHANGED <<catalog, games, genres_dict, budget, frame>>

\* ITADHandler.py 120 and 125: _safe_get returned None, json.loads(None) raises;
\* neither load_historical_low nor add_game catches it
LhGetFails ==
    /\ pc \in {"lh_get", "lh_get2"}
    /\ trace' = Append(trace, [ev |-> "get", batch |-> CurrentBatch])
    /\ call' = [call EXCEPT !.gets = Append(call.gets, "none"), !.status = "raised",
                            !.exc = "TypeError"]
    /\ pc' = "idle"
    /\ frame' = NoFrame
    /\ lh' = NoLh
    /\ UNCHANGED <<catalog, games, genres_dict, budget>>

\* ITADHandler.py 123: `i` is read; it is unbound when the loop body never ran
LhIf ==
    /\ pc = "lh_if"
    /\ IF lh.i = -1
       THEN /\ call' = [call EXCEPT !.status = "raised", !.exc = "UnboundLocalError"]
            /\ pc' = "idle"
            /\ frame' = NoFrame
            /\ lh' = NoLh
       ELSE /\ pc' = IF TailGuard(lh.games, lh.i) THEN "lh_sleep2" ELSE "lh_ret"
            /\ UNCHANGED <<call, frame, lh>>
    /\ UNCHANGED <<catalog, games, genres_dict, budget, trace>>

\* ITADHandler.py 127, returning to the direct caller
LhReturnMain ==
    /\ pc = "lh_ret"
    /\ lh.caller = "main"
    /\ call' = [call EXCEPT !.status = "returned", !.result = lh.temp]
    /\ pc' = "idle"
    /\ lh' = NoLh
    /\ UNCHANGED <<catalog, games, genres_dict, budget, frame, trace>>

\* ITADHandler.py 127 and index.py 82-83
AddGameLowest ==
    /\ pc = "lh_ret"
    /\ lh.caller = "add_game"
    /\ LET samples == lh.temp[frame.plain] IN
        IF Len(samples) = 0
        THEN /\ call' = [call EXCEPT !.samples = samples, !.status = "raised", !.exc = "IndexError"]
             /\ pc' = "idle"
             /\ frame' = NoFrame
        ELSE /\ call' = [call EXCEPT !.samples = samples]
             /\ frame' = [frame EXCEPT !.prices.lowest = LowestOf(samples)]
             /\ pc' = "review"
    /\ lh' = NoLh
    /\ UNCHANGED <<catalog, games, genres_dict, budget, trace>>

\* index.py 88-109
AddGameFinish(r, h) ==
    /\ pc = "review"
    /\ games' = Append(games,
            GameObj(frame.full_name, frame.genres, frame.devs, frame.publishers, frame.series,
                    frame.related, frame.prices, frame.platforms, TimeToBeat(h), "url", "art",
                    OCScore(r)))
    /\ call' = [call EXCEPT !.asked = TRUE, !.review = r, !.hltb = h, !.status = "returned"]
    /\ pc' = "idle"
    /\ frame' = NoFrame
    /\ UNCHANGED <<catalog, genres_dict, budget, lh, trace>>

LhSteps ==
    \/ LhFor
    \/ LhSleep
    \/ \E s \in SampleSeqs : LhGet(s)
    \/ LhGetFails
    \/ LhIf

AddGameSteps ==
    \/ \E k \in Keywords : AddGameNoMatch(k)
    \/ \E k \in Keywords : AddGamePlainNone(k)
    \/ \E k \in Keywords : AddGamePlainFound(k)
    \/ AddGameLowest
    \/ \E r \in Reviews, h \in HltbResults : AddGameFinish(r, h)

Next ==
    \/ AddGameSteps
    \/ LhSteps

NextWide ==
    \/ AddGameSteps
    \/ \E k \in Keywords : AddGameExtractRaises(k)
    \/ LhSteps

NextLoad ==
    \/ \E gs \in PlainLists : LoadCall(gs)
    \/ LhSteps
    \/ LhReturnMain

Spec == Init /\ [][Next]_vars

SpecWide == InitWide /\ [][NextWide]_vars

SpecLoad == Init /\ [][NextLoad]_vars

\* ------------------------------------------------------------------ claims
\* the call under way or last finished, seen from its inputs
IsAddGame == call.op = "add_game"
Matched == IsAddGame /\ Len(catalog[call.keyword]) > 0
CallEntry == catalog[call.keyword][1]
Finished == call.status \in {"returned", "raised"}
LastGame == games[Len(games)]
Appended == Len(games) = call.n0 + 1
HltbFailed == call.hltb.raises \/ call.hltb.entries = <<>>
PricingSucceeded == call.plain # "" /\ "none" \notin Range(call.gets) /\ call.samples # <<>>

\* C1: whatever the pricing, review and completion-time providers do on a
\* catalog match, add_game returns without raising, appends exactly one record,
\* and the record holds the unknown sentinel in the fields of each failed provider.
C1_NoProviderFailureEscapes ==
    (Matched /\ Finished) =>
        /\ call.status = "returned"
        /\ Appended
        /\ (call.plain = "" => LastGame.prices.lowest = Unknown)
        /\ (~call.review.valid => LastGame.review_score = Unknown)
        /\ (HltbFailed => LastGame.completion_hours = Unknown)

\* C2: an add_game call whose title has no catalog match returns without error
\* and leaves games and genres_dict as they were.
C2_NoMatchIsNoOp ==
    [][(budget' < budget /\ call'.op = "add_game" /\ Len(catalog[call'.keyword]) = 0)
         => (call'.status = "returned" /\ games' = games /\ genres_dict' = genres_dict)]_vars

C2_Witness ==
    /\ IsAddGame
    /\ Len(catalog[call.keyword]) = 0
    /\ call.status = "returned"
    /\ Len(games) >= 1
    /\ genres_dict # EmptyDict

\* C3: in every stored record, prices.stores is a non-empty list of store names
\* exactly when the current price is known.
C3_StoresIffCurrentKnown ==
    \A j \in 1..Len(games) :
        (games[j].prices.stores.kind = "list" /\ Len(games[j].prices.stores.items) > 0)
            <=> (games[j].prices.price # Unknown)

C3_Witness ==
    \E a, b \in 1..Len(games) :
        /\ games[a].prices.stores = StoresTypeObject
        /\ games[a].prices.lowest # Unknown
        /\ games[b].prices.stores = StoresList(<<>>)

RecordsWithGenre(g) == {j \in 1..Len(games) : g \in Range(games[j].genres)}

\* C4: between calls, the tally of every genre equals the number of stored
\* records whose genres contain it.
C4_TallyMatchesRecords ==
    pc = "idle" =>
        \A g \in GenreNames : DictGet(genres_dict, g, 0) = Cardinality(RecordsWithGenre(g))

\* C5: a catalog entry lacking any of its optional nested fields never makes
\* add_game raise during extraction, and the record takes the field's default.
C5_AbsentFieldsNeverRaise ==
    Matched =>
        /\ call.exc # "KeyError"
        /\ (call.status = "returned" =>
              /\ ("genres" \notin DOMAIN CallEntry => LastGame.genres = <<>>)
              /\ ("involved_companies" \notin DOMAIN CallEntry =>
                     LastGame.developers = <<>> /\ LastGame.publishers = <<>>)
              /\ ("platforms" \notin DOMAIN CallEntry => LastGame.platforms = <<>>)
              /\ ("collection" \notin DOMAIN CallEntry =>
                     LastGame.series = [name |-> "N/A", games |-> <<>>])
              /\ ("similar_games" \notin DOMAIN CallEntry => LastGame.related = <<>>))

\* C6: when the completion-time lookup raises or returns no entry while pricing
\* and review succeed, the record is still appended, with completion_hours = -1.
C6_HltbFailureStillAppends ==
    (Matched /\ call.asked /\ HltbFailed /\ PricingSucceeded /\ call.review.valid) =>
        /\ call.status = "returned"
        /\ Appended
        /\ LastGame.name = CallEntry["name"]
        /\ LastGame.completion_hours = -1

C6_Witness ==
    /\ Matched /\ call.asked /\ PricingSucceeded /\ call.review.valid
    /\ call.hltb.raises = FALSE /\ call.hltb.entries = <<>>
    /\ Len(games) = 2
    /\ games[1].completion_hours # -1

MinPrice(samples) ==
    CHOOSE m \in {samples[j]["price"] : j \in 1..Len(samples)} :
        \A j \in 1..Len(samples) : m <= samples[j]["price"]

\* C7: when the plain resolves and the historical-low fetch succeeds,
\* prices.lowest is the minimum price over the samples returned.
C7_LowestIsMinimum ==
    (Matched /\ call.status = "returned" /\ PricingSucceeded) =>
        LastGame.prices.lowest = MinPrice(call.samples)

CallCompanies ==
    IF "involved_companies" \in DOMAIN CallEntry THEN CallEntry["involved_companies"] ELSE <<>>

\* the positions of the companies carrying the flag, and the n-th of them
Flagged(cs, flag) == {j \in 1..Len(cs) : cs[j][flag] = TRUE}
NthOf(S, n) == CHOOSE j \in S : Cardinality({m \in S : m < j}) = n - 1

IsFirstTwoFlagged(names, cs, flag) ==
    /\ Len(names) <= 2
    /\ Len(names) = Min(2, Cardinality(Flagged(cs, flag)))
    /\ \A n \in 1..Len(names) : names[n] = cs[NthOf(Flagged(cs, flag), n)]["company"]["name"]

\* C8: the appended record's developers and publishers are the first two (or
\* fewer) involved companies flagged developer, respectively publisher, in
\* catalog order.
C8_FirstTwoCompanies ==
    (Matched /\ call.status = "returned") =>
        /\ IsFirstTwoFlagged(LastGame.developers, CallCompanies, "developer")
        /\ IsFirstTwoFlagged(LastGame.publishers, CallCompanies, "publisher")

C8_Witness ==
    /\ Matched /\ call.status = "returned"
    /\ Cardinality(Flagged(CallCompanies, "developer")) = 3
    /\ Flagged(CallCompanies, "publisher") = {2, 3}
    /\ Len(LastGame.developers) = 2

\* C9: every round-trip of load_historical_low carries at most 5 identifiers
\* and comes right after a pacing delay.
C9_BatchesPacedAndSmall ==
    \A j \in 1..Len(trace) :
        trace[j].ev = "get" =>
            /\ Len(trace[j].batch) <= 5
            /\ j > 1
            /\ trace[j - 1].ev = "sleep"

C9_Witness ==
    /\ call.op = "load"
    /\ call.status = "returned"
    /\ Len(call.arg) > 5
    /\ \E j \in 1..Len(trace) : trace[j].ev = "get" /\ Len(trace[j].batch) = 5

Gets == SelectSeq(trace, LAMBDA ev : ev.ev = "get")

RECURSIVE Concat(_)
Concat(evs) == IF evs = <<>> THEN <<>> ELSE Head(evs).batch \o Concat(Tail(evs))

CeilDiv(n, d) == (n + d - 1) \div d

\* C10: for every list of n identifiers (the empty list too), when the provider
\* answers every round-trip, load_historical_low returns normally after exactly
\* ceil(n/5) round-trips whose batches partition the list in order.
C10_ExactlyCeilBatches ==
    (call.op = "load" /\ Finished /\ "none" \notin Range(call.gets)) =>
        /\ call.status = "returned"
        /\ Len(Gets) = CeilDiv(Len(call.arg), 5)
        /\ Concat(Gets) = call.arg
====
